---- MODULE Spec2Model ----
(***************************************************************************)
(* The "cats" resource of django-simple-crud-tutorial: the Cat table       *)
(* (cats/models.py), its ModelSerializer (cats/serializers.py) and the     *)
(* ModelViewSet that serves it behind IsAuthenticated (cats/views.py,      *)
(* cats/urls.py).  Text values are sequences of one-character strings; a   *)
(* JSON value of a request body is a record [t, s] holding its JSON type   *)
(* and its literal text.                                                   *)
(***************************************************************************)
EXTENDS Integers, Sequences, FiniteSets, TLC

\* models.py: name = models.CharField(max_length=64)
NameMaxLength == 64
\* models.py: gender = models.CharField(max_length=32)
GenderMaxLength == 32
\* The number of rows the model lets the table's id sequence hand out.
MaxId == 2
\* The same, where the fields of the body are exercised.
MaxFieldId == 1

(***************************************************************************)
(* Text                                                                    *)
(***************************************************************************)
Rep(c, n) == [i \in 1..n |-> c]

SetMin(S) == CHOOSE x \in S : \A y \in S : x <= y

IsSpace(c) == c = " "

\* str.lstrip() and str.rstrip()
RECURSIVE LStrip(_)
LStrip(s) == IF s # <<>> /\ IsSpace(s[1]) THEN LStrip(Tail(s)) ELSE s

RECURSIVE RStrip(_)
RStrip(s) ==
    IF s # <<>> /\ IsSpace(s[Len(s)]) THEN RStrip(SubSeq(s, 1, Len(s) - 1)) ELSE s

\* str.strip(): the text without its leading and trailing whitespace.
Strip(s) == RStrip(LStrip(s))

Digits == <<"0", "1", "2", "3", "4", "5", "6", "7", "8", "9">>

IsDigit(c) == \E d \in 1..Len(Digits) : Digits[d] = c

DigitVal(c) == (CHOOSE d \in 1..Len(Digits) : Digits[d] = c) - 1

\* The value of a text of decimal digits, most significant digit first.
RECURSIVE DigitsVal(_)
DigitsVal(s) ==
    IF s = <<>> THEN 0
    ELSE 10 * DigitsVal(SubSeq(s, 1, Len(s) - 1)) + DigitVal(s[Len(s)])

\* The decimal digits of a natural number.
RECURSIVE NatText(_)
NatText(n) ==
    IF n < 10 THEN <<Digits[n + 1]>>
    ELSE Append(NatText(n \div 10), Digits[(n % 10) + 1])

\* str(int): the decimal text of an integer.
IntText(n) == IF n < 0 THEN <<"-">> \o NatText(-n) ELSE NatText(n)

(***************************************************************************)
(* JSON values of a request or response body                               *)
(***************************************************************************)
JStr(s) == [t |-> "str", s |-> s]

JNum(s) == [t |-> "num", s |-> s]

JTrue == [t |-> "bool", s |-> <<"t", "r", "u", "e">>]

JNull == [t |-> "null", s |-> <<"n", "u", "l", "l">>]

\* The key is not in the body (rest_framework.fields.empty).
Absent == [t |-> "absent", s |-> <<>>]

\* Python's str() of the parsed JSON value.
PyStr(v) ==
    CASE v.t = "bool" -> <<"T", "r", "u", "e">>
      [] v.t = "null" -> <<"N", "o", "n", "e">>
      [] v.t = "absent" -> <<"e", "m", "p", "t", "y">>
      [] OTHER -> v.s

(***************************************************************************)
(* Field validation (rest_framework.fields, as configured by the           *)
(* ModelSerializer from the model's fields)                                *)
(***************************************************************************)
\* Every field optional: a missing key is skipped on any request.
ValidateEmptyNeverRequired(v, partial) ==
    CASE v.t = "absent" -> "skip"
      [] v.t = "null" -> "null"
      [] OTHER -> "go"

\* Field.validate_empty_values: a missing key is skipped on a partial update
\* and an error on a required field; None is an error (allow_null is off).
ValidateEmpty(v, partial) ==
    CASE v.t = "absent" /\ partial -> "skip"
      [] v.t = "absent" /\ ~partial -> "required"
      [] v.t = "null" -> "null"
      [] OTHER -> "go"

\* Every value turned into its text, booleans and None included.
CharToInternalAnything(v) == [ok |-> TRUE, val |-> Strip(PyStr(v))]

\* CharField.to_internal_value: numbers are turned into their text, booleans
\* and everything else that is not text are refused; trim_whitespace is on.
CharToInternal(v) ==
    IF v.t \in {"str", "num"}
    THEN [ok |-> TRUE, val |-> Strip(PyStr(v))]
    ELSE [ok |-> FALSE, val |-> <<>>]

\* The limit off by one: a text of exactly max_length refused.
MaxLengthStrict(val, maxLen) ==
    IF Len(val) >= maxLen THEN {"max_length"} ELSE {}

\* MaxLengthValidator(max_length), run on the converted value.
MaxLengthErrors(val, maxLen) ==
    IF Len(val) > maxLen THEN {"max_length"} ELSE {}

\* ProhibitNullCharactersValidator, run on the converted value.
NullCharErrors(val) ==
    IF \E i \in 1..Len(val) : val[i] = "NUL"
    THEN {"null_characters_not_allowed"} ELSE {}

\* CharField.run_validation with allow_blank off: the blank test comes
\* first, then the empty-value test, the conversion and the validators.
CharFieldRun(v, maxLen, partial) ==
    IF Strip(PyStr(v)) = <<>>
    THEN [skip |-> FALSE, errs |-> {"blank"}, val |-> <<>>]
    ELSE LET e == ValidateEmpty(v, partial)
             c == CharToInternal(v)
         IN  CASE e = "skip" -> [skip |-> TRUE, errs |-> {}, val |-> <<>>]
               [] e \in {"required", "null"} ->
                    [skip |-> FALSE, errs |-> {e}, val |-> <<>>]
               [] e = "go" /\ ~c.ok ->
                    [skip |-> FALSE, errs |-> {"invalid"}, val |-> <<>>]
               [] OTHER ->
                    [skip |-> FALSE,
                     errs |-> MaxLengthErrors(c.val, maxLen) \cup NullCharErrors(c.val),
                     val |-> c.val]

\* IntegerField.re_decimal, r'\.0*\s*$', removed from the text: "1.0" is
\* allowed as an integer, "1.2" is not.
StripDecimalZeros(s) ==
    LET cut == {i \in 1..Len(s) :
                  /\ s[i] = "."
                  /\ \E j \in i..Len(s) :
                        /\ \A k \in (i + 1)..j : s[k] = "0"
                        /\ \A k \in (j + 1)..Len(s) : IsSpace(s[k])}
    IN  IF cut = {} THEN s ELSE SubSeq(s, 1, SetMin(cut) - 1)

\* The unsigned part of a text int() accepts: surrounding whitespace and
\* one sign are allowed around a non-empty run of digits.
IntBody(s) ==
    LET t == Strip(s)
    IN  IF t # <<>> /\ t[1] \in {"-", "+"} THEN Tail(t) ELSE t

IsPyInt(s) ==
    /\ IntBody(s) # <<>>
    /\ \A i \in 1..Len(IntBody(s)) : IsDigit(IntBody(s)[i])

\* int(text)
PyInt(s) ==
    IF Strip(s)[1] = "-" THEN 0 - DigitsVal(IntBody(s)) ELSE DigitsVal(IntBody(s))

\* IntegerField.to_internal_value: int(re_decimal.sub('', str(data))).
IntToInternal(v) ==
    LET text == StripDecimalZeros(PyStr(v))
    IN  IF IsPyInt(text)
        THEN [ok |-> TRUE, val |-> PyInt(text)]
        ELSE [ok |-> FALSE, val |-> 0]

\* IntegerField.run_validation
IntFieldRun(v, partial) ==
    LET e == ValidateEmpty(v, partial)
        c == IntToInternal(v)
    IN  CASE e = "skip" -> [skip |-> TRUE, errs |-> {}, val |-> 0]
          [] e \in {"required", "null"} -> [skip |-> FALSE, errs |-> {e}, val |-> 0]
          [] e = "go" /\ ~c.ok -> [skip |-> FALSE, errs |-> {"invalid"}, val |-> 0]
          [] OTHER -> [skip |-> FALSE, errs |-> {}, val |-> c.val]

(***************************************************************************)
(* The Cat model and its serializer                                        *)
(***************************************************************************)
\* Cat.name
NameField(v, partial) == CharFieldRun(v, NameMaxLength, partial)

\* Cat.age
AgeField(v, partial) == IntFieldRun(v, partial)

\* gender validated against the limit of name.
GenderFieldWithNameLimit(v, partial) == CharFieldRun(v, NameMaxLength, partial)

\* Cat.gender
GenderField(v, partial) == CharFieldRun(v, GenderMaxLength, partial)

\* Cat.id, the AutoField primary key: read-only in the serializer, so the
\* key is not read from a body.
IdField(v, readOnly) ==
    IF readOnly \/ v.t = "absent"
    THEN [skip |-> TRUE, errs |-> {}, val |-> 0]
    ELSE IntFieldRun(v, TRUE)

\* fields = "__all__"
AllFields == {"id", "name", "age", "gender"}

\* No read-only field: the primary key taken from the body like any field.
NoReadOnlyFields == {}

\* The fields the ModelSerializer builds read-only: the primary key.
ReadOnlyFields == {"id"}

\* Serializer._writable_fields
WritableFields == AllFields \ ReadOnlyFields

\* Serializer.to_internal_value: every writable field is validated, the
\* errors are collected per field and the skipped fields are left out.
ToInternalValue(body, partial) ==
    LET i == IdField(body.id, "id" \notin WritableFields)
        n == NameField(body.name, partial)
        a == AgeField(body.age, partial)
        g == GenderField(body.gender, partial)
    IN  [errors |-> {<<"id", c>> : c \in i.errs}
                    \cup {<<"name", c>> : c \in n.errs}
                    \cup {<<"age", c>> : c \in a.errs}
                    \cup {<<"gender", c>> : c \in g.errs},
         has |-> {f \in WritableFields :
                    \/ f = "id" /\ ~i.skip
                    \/ f = "name" /\ ~n.skip
                    \/ f = "age" /\ ~a.skip
                    \/ f = "gender" /\ ~g.skip},
         id |-> i.val, name |-> n.val, age |-> a.val, gender |-> g.val]

\* Serializer.to_representation of a row: all four fields.
Serialize(row) ==
    [id |-> JNum(IntText(row.id)), name |-> JStr(row.name),
     age |-> JNum(IntText(row.age)), gender |-> JStr(row.gender)]

(***************************************************************************)
(* Requests                                                                *)
(***************************************************************************)
Body(n, a, g, i) == [id |-> i, name |-> n, age |-> a, gender |-> g]

PlainName == JStr(<<"a">>)

PlainAge == JNum(<<"3">>)

PlainGender == JStr(<<"m">>)

PlainBody == Body(PlainName, PlainAge, PlainGender, Absent)

\* The values a request may carry for each key.
NameInputs ==
    {PlainName, Absent, JTrue, JNum(<<"7">>), JStr(<<>>),
     JStr(<<" ", "a">>), JStr(<<"a", "NUL">>),
     JStr(Rep("a", NameMaxLength)),
     JStr(Rep("a", NameMaxLength + 1)),
     JStr(Append(Rep("a", NameMaxLength), " "))}

AgeInputs ==
    {PlainAge, Absent, JNull, JTrue, JNum(<<"3", ".", "5">>), JNum(<<"-", "5">>),
     JNum(<<"-", "5", ".", "0">>), JStr(<<"-", "5">>), JStr(<<"x">>)}

GenderInputs == {PlainGender, Absent, JStr(Rep("m", GenderMaxLength + 1))}

IdInputs == {Absent, JNum(<<"9">>)}

AllBodies ==
    {Body(n, a, g, i) : n \in NameInputs, a \in AgeInputs, g \in GenderInputs,
                        i \in IdInputs}

\* How many keys of a body differ from the plain body.
Unusual(b) ==
    Cardinality({f \in {"id", "name", "age", "gender"} :
                    \/ f = "id" /\ b.id # Absent
                    \/ f = "name" /\ b.name # PlainName
                    \/ f = "age" /\ b.age # PlainAge
                    \/ f = "gender" /\ b.gender # PlainGender})

\* How many of the three data keys a body carries.
Present(b) ==
    Cardinality({f \in {"name", "age", "gender"} :
                    \/ f = "name" /\ b.name # Absent
                    \/ f = "age" /\ b.age # Absent
                    \/ f = "gender" /\ b.gender # Absent})

\* The bodies sent where the fields are exercised.  To CREATE and PUT: the
\* plain body with at most one key changed or left out.
FullBodies == {b \in AllBodies : Unusual(b) <= 1}

\* To PATCH: the bodies that carry one data key only.
PartBodies == {b \in AllBodies : Present(b) = 1 /\ b.id = Absent}

\* The bodies sent where the life of the rows is exercised.
LifeBodies ==
    {PlainBody,
     Body(PlainName, PlainAge, PlainGender, JNum(<<"9">>)),
     Body(JNum(<<"7">>), Absent, Absent, JNum(<<"1">>)),
     Body(Absent, JStr(<<"5">>), Absent, Absent),
     Body(Absent, JStr(<<"x">>), Absent, Absent)}

\* The bodies sent to the concurrently handled updates.
ConcBodies ==
    {PlainBody,
     Body(JNum(<<"7">>), PlainAge, PlainGender, Absent),
     Body(JNum(<<"7">>), Absent, Absent, Absent),
     Body(Absent, JStr(<<"5">>), Absent, Absent),
     Body(Absent, JStr(<<"x">>), Absent, Absent)}

NoBody == Body(Absent, Absent, Absent, Absent)

\* The ids a URL may name.
UrlIds == 1..MaxId

\* The two request handlers that may run at the same time.
Workers == {"w1", "w2"}

Idle == [busy |-> FALSE, op |-> "NONE", auth |-> TRUE, id |-> 0, instance |-> {}]

VARIABLES
    table,      \* the rows of the cats table
    nextId,     \* the next value of the table's id sequence
    workers,    \* per handler: the update it is in the middle of
    last        \* the request answered last, with its response

vars == <<table, nextId, workers, last>>

\* A request with its response.  loaded is the row get_object() returned and
\* before is the row of that id in the table when the response was made.
Response(op, auth, id, body, status, rows, errors, loaded, before) ==
    [op |-> op, auth |-> auth, id |-> id, body |-> body, status |-> status,
     rows |-> rows, errors |-> errors, loaded |-> loaded, before |-> before]

NoRequest == Response("NONE", TRUE, 0, NoBody, "NONE", {}, {}, {}, {})

\* permission_classes = [AllowAny]: the gate left open.
AllowAny(auth) == TRUE

\* permission_classes = [IsAuthenticated]
HasPermission(auth) == auth

\* APIView.initial: the permission check, made before the handler runs.
Denied(op, auth, id, body) ==
    Response(op, auth, id, body, "Unauthorized", {}, {}, {}, {})

\* GenericAPIView.get_object over queryset = Cat.objects.all()
GetObject(tbl, id) == {r \in tbl : r.id = id}

\* Model.save() of a loaded instance: UPDATE the row with its primary key
\* and, when no row was updated, INSERT it.
SaveRow(tbl, row) ==
    IF \E r \in tbl : r.id = row.id
    THEN (tbl \ {r \in tbl : r.id = row.id}) \cup {row}
    ELSE tbl \cup {row}

\* Cat.objects.create(**validated_data): the id comes from the sequence.
NewRow(nid, v) ==
    [id |-> IF "id" \in v.has THEN v.id ELSE nid,
     name |-> v.name, age |-> v.age, gender |-> v.gender]

\* Every field taken from the validated data, supplied or not.
UpdatedRowReplacingAll(instance, v) ==
    [id |-> instance.id, name |-> v.name, age |-> v.age, gender |-> v.gender]

\* ModelSerializer.update: the validated fields are set on the instance.
UpdatedRow(instance, v) ==
    [id |-> IF "id" \in v.has THEN v.id ELSE instance.id,
     name |-> IF "name" \in v.has THEN v.name ELSE instance.name,
     age |-> IF "age" \in v.has THEN v.age ELSE instance.age,
     gender |-> IF "gender" \in v.has THEN v.gender ELSE instance.gender]

\* ListModelMixin.list
ListOutcome(tbl, auth) ==
    IF ~HasPermission(auth) THEN Denied("LIST", auth, 0, NoBody)
    ELSE Response("LIST", auth, 0, NoBody, "OK", {Serialize(r) : r \in tbl}, {}, {}, {})

\* RetrieveModelMixin.retrieve
RetrieveOutcome(tbl, auth, id) ==
    IF ~HasPermission(auth) THEN Denied("RETRIEVE", auth, id, NoBody)
    ELSE IF GetObject(tbl, id) = {}
         THEN Response("RETRIEVE", auth, id, NoBody, "NotFound", {}, {}, {}, {})
         ELSE Response("RETRIEVE", auth, id, NoBody, "OK",
                       {Serialize(r) : r \in GetObject(tbl, id)}, {}, GetObject(tbl, id),
                       GetObject(tbl, id))

\* CreateModelMixin.create: validate, then insert.
CreateOutcome(tbl, nid, auth, body) ==
    LET v == ToInternalValue(body, FALSE)
    IN  IF ~HasPermission(auth)
        THEN [table |-> tbl, nextId |-> nid, last |-> Denied("CREATE", auth, 0, body)]
        ELSE IF v.errors # {}
        THEN [table |-> tbl, nextId |-> nid,
              last |-> Response("CREATE", auth, 0, body, "ValidationError", {}, v.errors, {}, {})]
        ELSE [table |-> tbl \cup {NewRow(nid, v)}, nextId |-> nid + 1,
              last |-> Response("CREATE", auth, 0, body, "Created",
                                {Serialize(NewRow(nid, v))}, {}, {}, {})]

\* DestroyModelMixin.destroy
DestroyOutcome(tbl, auth, id) ==
    IF ~HasPermission(auth)
    THEN [table |-> tbl, last |-> Denied("DELETE", auth, id, NoBody)]
    ELSE IF GetObject(tbl, id) = {}
    THEN [table |-> tbl,
          last |-> Response("DELETE", auth, id, NoBody, "NotFound", {}, {}, {}, {})]
    ELSE [table |-> tbl \ GetObject(tbl, id),
          last |-> Response("DELETE", auth, id, NoBody, "NoContent", {}, {},
                            GetObject(tbl, id), GetObject(tbl, id))]

\* The row looked up before the permission check.
LoadOutcomeLookupFirst(tbl, op, auth, id, body) ==
    IF GetObject(tbl, id) = {}
    THEN [found |-> FALSE,
          last |-> Response(op, auth, id, body, "NotFound", {}, {}, {}, {})]
    ELSE IF ~HasPermission(auth)
    THEN [found |-> FALSE, last |-> Denied(op, auth, id, body)]
    ELSE [found |-> TRUE, last |-> NoRequest]

\* UpdateModelMixin.update up to get_object(): the permission check and the
\* read of the row.
LoadOutcome(tbl, op, auth, id, body) ==
    IF ~HasPermission(auth)
    THEN [found |-> FALSE, last |-> Denied(op, auth, id, body)]
    ELSE IF GetObject(tbl, id) = {}
    THEN [found |-> FALSE,
          last |-> Response(op, auth, id, body, "NotFound", {}, {}, {}, {})]
    ELSE [found |-> TRUE, last |-> NoRequest]

\* The save refused when the row is no longer the one that was loaded.
StoreOutcomeCheckingVersion(tbl, op, auth, id, body, instance) ==
    LET v == ToInternalValue(body, op = "PATCH")
        row == UpdatedRow(CHOOSE r \in instance : TRUE, v)
    IN  IF v.errors # {}
        THEN [table |-> tbl,
              last |-> Response(op, auth, id, body, "ValidationError", {}, v.errors,
                                instance, GetObject(tbl, id))]
        ELSE IF GetObject(tbl, id) # instance
        THEN [table |-> tbl,
              last |-> Response(op, auth, id, body, "Conflict", {}, {},
                                instance, GetObject(tbl, id))]
        ELSE [table |-> SaveRow(tbl, row),
              last |-> Response(op, auth, id, body, "OK", {Serialize(row)}, {},
                                instance, GetObject(tbl, id))]

\* UpdateModelMixin.update after get_object(): validate the body against the
\* loaded instance (partial for PATCH) and save the instance.
StoreOutcome(tbl, op, auth, id, body, instance) ==
    LET v == ToInternalValue(body, op = "PATCH")
        row == UpdatedRow(CHOOSE r \in instance : TRUE, v)
    IN  IF v.errors # {}
        THEN [table |-> tbl,
              last |-> Response(op, auth, id, body, "ValidationError", {}, v.errors,
                                instance, GetObject(tbl, id))]
        ELSE [table |-> SaveRow(tbl, row),
              last |-> Response(op, auth, id, body, "OK", {Serialize(row)}, {},
                                instance, GetObject(tbl, id))]

(***************************************************************************)
(* The state machine: one request handled per step                         *)
(***************************************************************************)
Init ==
    /\ table = {}
    /\ nextId = 1
    /\ workers = [w \in Workers |-> Idle]
    /\ last = NoRequest

\* The bodies sent with and without credentials.
Sent(auth, B) == IF auth THEN B ELSE {PlainBody}

\* GET /cats/
ListRequest(A) ==
    \E auth \in A :
        /\ last' = ListOutcome(table, auth)
        /\ UNCHANGED <<table, nextId, workers>>

\* POST /cats/
CreateRequest(A, B, maxId) ==
    \E auth \in A : \E body \in Sent(auth, B) :
        LET o == CreateOutcome(table, nextId, auth, body)
        IN  /\ o.nextId <= maxId + 1
            /\ table' = o.table
            /\ nextId' = o.nextId
            /\ last' = o.last
            /\ UNCHANGED workers

\* GET /cats/{id}/
RetrieveRequest(A, I) ==
    \E auth \in A, id \in I :
        /\ last' = RetrieveOutcome(table, auth, id)
        /\ UNCHANGED <<table, nextId, workers>>

\* PUT or PATCH /cats/{id}/, handled without another request in between.
UpdateRequest(op, A, B, I) ==
    \E auth \in A, id \in I : \E body \in Sent(auth, B) :
        LET l == LoadOutcome(table, op, auth, id, body)
            o == StoreOutcome(table, op, auth, id, body, GetObject(table, id))
        IN  /\ IF l.found
               THEN table' = o.table /\ last' = o.last
               ELSE table' = table /\ last' = l.last
            /\ UNCHANGED <<nextId, workers>>

\* DELETE /cats/{id}/
DestroyRequest(A, I) ==
    \E auth \in A, id \in I :
        LET o == DestroyOutcome(table, auth, id)
        IN  /\ table' = o.table
            /\ last' = o.last
            /\ UNCHANGED <<nextId, workers>>

ListCats == ListRequest(BOOLEAN)

CreateCat == CreateRequest(BOOLEAN, LifeBodies, MaxId)

RetrieveCat == RetrieveRequest(BOOLEAN, UrlIds)

UpdateCat == UpdateRequest("PUT", BOOLEAN, LifeBodies, UrlIds)

PartialUpdateCat == UpdateRequest("PATCH", BOOLEAN, LifeBodies, UrlIds)

DestroyCat == DestroyRequest(BOOLEAN, UrlIds)

Next ==
    \/ ListCats
    \/ CreateCat
    \/ RetrieveCat
    \/ UpdateCat
    \/ PartialUpdateCat
    \/ DestroyCat

Spec == Init /\ [][Next]_vars

(***************************************************************************)
(* The same machine with the fields of the body exercised: the bodies of   *)
(* FullBodies and PartBodies, on a table of at most MaxFieldId rows.       *)
(***************************************************************************)
FieldIds == 1..MaxFieldId

ListField == ListRequest(BOOLEAN)

CreateField == CreateRequest(BOOLEAN, FullBodies, MaxFieldId)

RetrieveField == RetrieveRequest(BOOLEAN, FieldIds)

UpdateField == UpdateRequest("PUT", BOOLEAN, FullBodies, FieldIds)

PartialUpdateField == UpdateRequest("PATCH", BOOLEAN, PartBodies, FieldIds)

DestroyField == DestroyRequest(BOOLEAN, FieldIds)

NextFields ==
    \/ ListField
    \/ CreateField
    \/ RetrieveField
    \/ UpdateField
    \/ PartialUpdateField
    \/ DestroyField

SpecFields == Init /\ [][NextFields]_vars

(***************************************************************************)
(* The machine with two updates of cat 1 in progress at once: an update    *)
(* reads its row in one step and validates and saves in a later one.  The  *)
(* body is first read in the second step, so that is where it is drawn.    *)
(***************************************************************************)
\* The id the concurrent requests name.
ConcIds == {1}

\* A table holding two cats created from the plain body.
InitConc ==
    /\ table = {NewRow(1, ToInternalValue(PlainBody, FALSE)),
                NewRow(2, ToInternalValue(PlainBody, FALSE))}
    /\ nextId = 3
    /\ workers = [w \in Workers |-> Idle]
    /\ last = NoRequest

\* PUT or PATCH /cats/{id}/ up to get_object()
BeginUpdate(w) ==
    /\ ~workers[w].busy
    /\ \E op \in {"PUT", "PATCH"}, id \in ConcIds :
        LET l == LoadOutcome(table, op, TRUE, id, NoBody)
        IN  /\ IF l.found
               THEN /\ workers' = [workers EXCEPT ![w] =
                                     [busy |-> TRUE, op |-> op, auth |-> TRUE, id |-> id,
                                      instance |-> GetObject(table, id)]]
                    /\ last' = last
               ELSE /\ workers' = workers
                    /\ last' = l.last
            /\ UNCHANGED <<table, nextId>>

\* PUT or PATCH /cats/{id}/ from is_valid() to the response
FinishUpdate(w) ==
    /\ workers[w].busy
    /\ \E body \in ConcBodies :
        LET o == StoreOutcome(table, workers[w].op, workers[w].auth, workers[w].id, body,
                              workers[w].instance)
        IN  /\ table' = o.table
            /\ last' = o.last
            /\ workers' = [workers EXCEPT ![w] = Idle]
            /\ UNCHANGED nextId

BeginSomeUpdate == \E w \in Workers : BeginUpdate(w)

FinishSomeUpdate == \E w \in Workers : FinishUpdate(w)

RetrieveConc == RetrieveRequest({TRUE}, ConcIds)

DestroyConc == DestroyRequest({TRUE}, ConcIds)

NextConc ==
    \/ BeginSomeUpdate
    \/ FinishSomeUpdate
    \/ RetrieveConc
    \/ DestroyConc

SpecConc == InitConc /\ [][NextConc]_vars

(***************************************************************************)
(* Properties                                                              *)
(***************************************************************************)
Ids(tbl) == {r.id : r \in tbl}

IsUpdate(l) == l.op \in {"PUT", "PATCH"}

IsWrite(l) == l.op \in {"CREATE", "PUT", "PATCH"}

\* C1: a request without valid credentials, whichever of the six operations
\* it asks for, is answered Unauthorized with no data, and the step that
\* answers it leaves the rows of the table and the id sequence as they were.
C1_UnauthenticatedChangesNothing ==
    [][(last'.op # "NONE" /\ ~last'.auth)
        => /\ last'.status = "Unauthorized"
           /\ last'.rows = {}
           /\ table' = table
           /\ nextId' = nextId]_vars

\* An unauthenticated DELETE of a row that exists was refused and the row is
\* still there.
C1_Witness ==
    /\ last.op = "DELETE"
    /\ ~last.auth
    /\ last.status = "Unauthorized"
    /\ GetObject(table, last.id) # {}

\* C9: for RETRIEVE, PUT, PATCH and DELETE the checks come in the order
\* credentials, existence of the id, validity of the body: without
\* credentials the answer is Unauthorized even for an absent id, with
\* credentials an absent id is NotFound even for an invalid body, an invalid
\* body for an existing id is ValidationError, and a request answered by one
\* of the three errors leaves the table as it was.
C9_CheckOrder ==
    [][last'.op \in {"RETRIEVE", "PUT", "PATCH", "DELETE"}
        => /\ ~last'.auth => last'.status = "Unauthorized"
           /\ (last'.auth /\ GetObject(table, last'.id) = {})
                => last'.status = "NotFound"
           /\ (/\ last'.auth
               /\ GetObject(table, last'.id) # {}
               /\ IsUpdate(last')
               /\ ToInternalValue(last'.body, last'.op = "PATCH").errors # {})
                => last'.status = "ValidationError"
           /\ last'.status \in {"Unauthorized", "NotFound", "ValidationError"}
                => table' = table /\ nextId' = nextId]_vars

\* An authenticated PATCH with an invalid body for an absent id was answered
\* NotFound while another row is in the table.
C9_Witness ==
    /\ last.op = "PATCH"
    /\ last.auth
    /\ last.status = "NotFound"
    /\ ToInternalValue(last.body, TRUE).errors # {}
    /\ table # {}

DataFields == {"name", "age", "gender"}

Field(b, f) ==
    CASE f = "name" -> b.name
      [] f = "age" -> b.age
      [] f = "gender" -> b.gender

\* An optional minus sign and one or more digits.
IsIntegerLiteral(s) ==
    LET d == IF s # <<>> /\ s[1] = "-" THEN Tail(s) ELSE s
    IN  d # <<>> /\ \A i \in 1..Len(d) : IsDigit(d[i])

\* An integer literal, or one followed by a point and zeros only.
IsIntegral(s) ==
    \E k \in 1..Len(s) :
        /\ IsIntegerLiteral(SubSeq(s, 1, k))
        /\ \/ k = Len(s)
           \/ s[k + 1] = "." /\ \A j \in (k + 2)..Len(s) : s[j] = "0"

\* The length of a text from its first to its last character that is not
\* whitespace.
TrimmedLen(s) ==
    LET keep == {i \in 1..Len(s) : s[i] # " "}
        first == CHOOSE i \in keep : \A j \in 1..(i - 1) : s[j] = " "
        final == CHOOSE i \in keep : \A j \in (i + 1)..Len(s) : s[j] = " "
    IN  IF keep = {} THEN 0 ELSE final - first + 1

HasNul(s) == \E i \in 1..Len(s) : s[i] = "NUL"

\* A text with no whitespace at either end, not empty, and without NUL.
CleanText(s) == TrimmedLen(s) = Len(s) /\ s # <<>> /\ ~HasNul(s)

\* The input the claim calls valid.
ValidAsClaimed(b) ==
    /\ b.name.t = "str" /\ Len(b.name.s) <= NameMaxLength
    /\ b.age.t = "num" /\ IsIntegerLiteral(b.age.s)
    /\ b.gender.t = "str" /\ Len(b.gender.s) <= GenderMaxLength

\* The table holds the created row under the returned id, and reading it
\* back gives the body's name, age and gender as they were sent.
RoundTrip(l, tbl) ==
    /\ l.status = "Created"
    /\ \E e \in l.rows :
        /\ e.id.t = "num"
        /\ RetrieveOutcome(tbl, TRUE, PyInt(e.id.s)).status = "OK"
        /\ RetrieveOutcome(tbl, TRUE, PyInt(e.id.s)).rows =
              {[id |-> e.id, name |-> l.body.name, age |-> l.body.age,
                gender |-> l.body.gender]}

\* C2 as stated: every authenticated CREATE with a name of at most 64
\* characters, an integer age and a gender of at most 32 characters is
\* answered with an id under which RETRIEVE gives back the input fields.
C2_Original ==
    (last.op = "CREATE" /\ last.auth /\ ValidAsClaimed(last.body))
        => RoundTrip(last, table)

\* C2: an authenticated CREATE whose name and gender are texts within their
\* limits that are not empty, have no whitespace at either end and no NUL,
\* and whose age is an integer, is answered with an id under which RETRIEVE
\* gives back the name, age and gender of the input.
C2_CreateThenRetrieve ==
    (/\ last.op = "CREATE" /\ last.auth
     /\ ValidAsClaimed(last.body)
     /\ CleanText(last.body.name.s) /\ CleanText(last.body.gender.s))
        => RoundTrip(last, table)

\* A name of exactly 64 characters was created and reads back.
C2_Witness ==
    /\ last.op = "CREATE"
    /\ Len(last.body.name.s) = NameMaxLength
    /\ RoundTrip(last, table)

\* A value of a key that validation refuses.
AgeUnusable(v) == v.t \in {"null", "bool"} \/ ~IsIntegral(v.s)

TextUnusable(v, maxLen) ==
    \/ v.t \in {"null", "bool"}
    \/ TrimmedLen(v.s) = 0
    \/ TrimmedLen(v.s) > maxLen
    \/ HasNul(v.s)

Unusable(b, f) ==
    /\ Field(b, f) # Absent
    /\ CASE f = "name" -> TextUnusable(b.name, NameMaxLength)
         [] f = "age" -> AgeUnusable(b.age)
         [] f = "gender" -> TextUnusable(b.gender, GenderMaxLength)

MissingRequired(op, b) ==
    op \in {"CREATE", "PUT"} /\ \E f \in DataFields : Field(b, f) = Absent

\* A write that reached validation: authenticated, its target found.
Validated(l) == IsWrite(l) /\ l.auth /\ l.status # "NotFound"

\* C5 as stated: a write with a required field missing, an age that is not
\* an integer, a name of more than 64 characters or a gender of more than
\* 32 characters is answered ValidationError.
C5_Original ==
    (/\ Validated(last)
     /\ \/ MissingRequired(last.op, last.body)
        \/ last.body.age # Absent /\ AgeUnusable(last.body.age)
        \/ last.body.name.t = "str" /\ Len(last.body.name.s) > NameMaxLength
        \/ last.body.gender.t = "str" /\ Len(last.body.gender.s) > GenderMaxLength)
        => last.status = "ValidationError"

\* C5: a write that reached validation is answered ValidationError exactly
\* when a required key is missing (CREATE, PUT) or a key it carries is
\* unusable: null or a boolean; an age that is not an integer numeral
\* (zeros after a point allowed); a name or gender that is empty after
\* trimming, longer than its limit after trimming, or holds NUL.  The step
\* that answers ValidationError leaves the table and the sequence as they
\* were.
C5_InvalidWriteChangesNothing ==
    [][Validated(last')
        => /\ last'.status = "ValidationError"
                <=> \/ MissingRequired(last'.op, last'.body)
                    \/ \E f \in DataFields : Unusable(last'.body, f)
           /\ last'.status = "ValidationError"
                => table' = table /\ nextId' = nextId]_vars

\* A PUT with a name that is too long for a row that exists was refused.
C5_Witness ==
    /\ last.op = "PUT"
    /\ last.status = "ValidationError"
    /\ <<"name", "max_length">> \in last.errors
    /\ GetObject(table, last.id) # {}

\* C7: every row of the table has a name of at most 64 and a gender of at
\* most 32 characters, and no write that succeeded carried a null, or on
\* CREATE and PUT lacked a key, so that every row has all three fields.
C7_RowsWithinLimits ==
    /\ \A r \in table :
        Len(r.name) <= NameMaxLength /\ Len(r.gender) <= GenderMaxLength
    /\ (IsWrite(last) /\ last.status \in {"Created", "OK"})
        => /\ \A f \in DataFields : Field(last.body, f) # JNull
           /\ ~MissingRequired(last.op, last.body)

\* A name sent with 65 characters is in the table with 64.
C7_Witness ==
    /\ IsWrite(last)
    /\ last.status \in {"Created", "OK"}
    /\ Len(last.body.name.s) = NameMaxLength + 1
    /\ \E r \in table : Len(r.name) = NameMaxLength

\* A key that carries a value of another JSON type than its field's.
WrongType(b, f) ==
    CASE f = "age" -> b.age.t \in {"str", "bool"}
      [] OTHER -> Field(b, f).t \in {"num", "bool"}

\* C8 as stated: a write with a key of the wrong type (a string for age, a
\* number for name or gender) is answered ValidationError naming the key.
C8_Original ==
    Validated(last)
        => \A f \in DataFields :
              WrongType(last.body, f)
                => /\ last.status = "ValidationError"
                   /\ \E e \in last.errors : e[1] = f

\* C8: a key whose value cannot be converted (a boolean or null; for age a
\* text or number that is not an integer numeral) is answered
\* ValidationError naming the key.  A number for name or gender is stored as
\* its text and an integer numeral in a string for age as that integer.
C8_ConversionOfTypes ==
    Validated(last)
        => /\ \A f \in DataFields :
                (/\ Field(last.body, f) # Absent
                 /\ \/ Field(last.body, f).t \in {"bool", "null"}
                    \/ f = "age" /\ ~IsIntegral(last.body.age.s))
                    => /\ last.status = "ValidationError"
                       /\ \E e \in last.errors : e[1] = f
           /\ last.status \in {"Created", "OK"}
                => \A e \in last.rows :
                      /\ last.body.name.t = "num" => e.name = JStr(last.body.name.s)
                      /\ last.body.gender.t = "num" => e.gender = JStr(last.body.gender.s)
                      /\ (last.body.age.t = "str" /\ IsIntegerLiteral(last.body.age.s))
                            => e.age = JNum(last.body.age.s)

\* A CREATE with a number for name succeeded.
C8_Witness ==
    /\ last.op = "CREATE"
    /\ last.status = "Created"
    /\ last.body.name.t = "num"

(***************************************************************************)
(* Properties of updates in progress at once                               *)
(***************************************************************************)
\* C3 as stated: a PATCH that succeeded left the fields it did not carry as
\* they were in the table when it wrote.
C3_Original ==
    (last.op = "PATCH" /\ last.status = "OK")
        => \A b \in last.before : \A r \in GetObject(table, last.id) :
              /\ last.body.name = Absent => r.name = b.name
              /\ last.body.age = Absent => r.age = b.age
              /\ last.body.gender = Absent => r.gender = b.gender

\* C3: the step in which a PATCH succeeds leaves in the table, under the id
\* of the URL, the row whose supplied fields have the supplied values and
\* whose other fields have the values the request loaded, and leaves every
\* other row as it was.
C3_PatchWritesLoadedRow ==
    [][\A w \in Workers :
        (/\ workers[w].busy /\ ~workers'[w].busy
         /\ workers[w].op = "PATCH" /\ last'.status = "OK")
            => LET inst == CHOOSE r \in workers[w].instance : TRUE
                   b == last'.body
                   v == ToInternalValue(b, TRUE)
               IN  /\ GetObject(table', workers[w].id) =
                        {[id |-> workers[w].id,
                          name |-> IF b.name = Absent THEN inst.name ELSE v.name,
                          age |-> IF b.age = Absent THEN inst.age ELSE v.age,
                          gender |-> IF b.gender = Absent THEN inst.gender ELSE v.gender]}
                   /\ {r \in table' : r.id # workers[w].id}
                        = {r \in table : r.id # workers[w].id}]_vars

\* A PATCH succeeded on a row that another update had changed since the
\* PATCH loaded it, with the other row of the table still there.
C3_Witness ==
    /\ last.op = "PATCH"
    /\ last.status = "OK"
    /\ last.before # {}
    /\ last.before # last.loaded
    /\ GetObject(table, 2) # {}

\* C4: an id that was handed out and whose row is gone stays gone: RETRIEVE
\* of it is NotFound after every later step.
C4_DeletedStaysDeleted ==
    [][\A i \in ConcIds :
        (i < nextId /\ GetObject(table, i) = {})
            => RetrieveOutcome(table', TRUE, i).status = "NotFound"]_vars

\* C10: an update that loaded its row is answered by the validity of its
\* body alone, whatever was written to the row since (no conflict is
\* raised), and while a successful update is the last request answered the
\* row in the table is the row that update wrote.
C10_LastWriteWins ==
    (IsUpdate(last) /\ last.loaded # {})
        => /\ last.status =
                IF ToInternalValue(last.body, last.op = "PATCH").errors = {}
                THEN "OK" ELSE "ValidationError"
           /\ last.status = "OK"
                => {Serialize(r) : r \in GetObject(table, last.id)} = last.rows

\* A PUT succeeded on a row that the other update had changed since the PUT
\* loaded it.
C10_Witness ==
    /\ last.op = "PUT"
    /\ last.status = "OK"
    /\ last.before # {}
    /\ last.before # last.loaded
    /\ \A w \in Workers : ~workers[w].busy

====
